---------------------------- MODULE Spec2Model ----------------------------
(***************************************************************************)
(* Model of scripts/diesel_prediction.py: the cohort fleet projection      *)
(* (build_fleet_model), the consumption aggregation                        *)
(* (calculate_consumption), the van estimate, backtest, forecast and main. *)
(*                                                                         *)
(* Numbers.  The program computes in binary floating point; the model      *)
(* computes the same expressions exactly.  Every literal of the program is *)
(* a decimal fraction, so a quantity is kept as an integer numerator over  *)
(* a fixed power of ten:                                                   *)
(*   survival rates       per mille      (0.983  -> 983)                   *)
(*   decline rate         per cent       (0.85   -> 85)                    *)
(*   mileage adjustment   per cent       (0.98   -> 98, 1.0 -> 100)        *)
(* The one division by a non power of ten, miles / mpg, is kept symbolic:  *)
(* a litres figure is the vector of mile numerators per mpg value.         *)
(* Numerators exceed 32 bits, so they are little-endian sequences of       *)
(* base-100000 limbs ("Big"), normalised (no high zero limb), so that equal *)
(* numbers are equal sequences.                                            *)
(*                                                                         *)
(* The rounding of binary64 is not modelled.  The program can differ from  *)
(* the exact value in the last place; where it truncates                   *)
(* (int(new_cars * survival)) a product whose exact value is an integer    *)
(* can come out one lower (3000 * 0.569 gives 1706).  The recorded counts  *)
(* of the inputs below were run through the program and give the same      *)
(* cohort counts as here; for extrapolated registration years the program  *)
(* may store one vehicle less (100000 * 0.85^2 * survival(0) gives 72249,  *)
(* the exact value is 72250).                                              *)
(***************************************************************************)
EXTENDS Integers, Sequences, FiniteSets, TLC

\* ------------------------------------------------------------------------
\* Exact arithmetic on naturals of any size
\* ------------------------------------------------------------------------
\* Limb size.  The numbers represented do not depend on it.
Base == 100000

\* BigMulSmall takes a factor up to Chunk (limb * factor stays below 2^31)
Chunk == 10000

RECURSIVE BigOf(_)
BigOf(n) == IF n = 0 THEN <<>> ELSE <<n % Base>> \o BigOf(n \div Base)

RECURSIVE BigToNat(_)
BigToNat(a) == IF a = <<>> THEN 0 ELSE Head(a) + Base * BigToNat(Tail(a))

RECURSIVE BigMulCarry(_, _, _)
BigMulCarry(a, m, c) ==
    IF a = <<>> THEN BigOf(c)
    ELSE LET t == Head(a) * m + c
         IN  <<t % Base>> \o BigMulCarry(Tail(a), m, t \div Base)

\* a * m for a natural m <= Chunk
BigMulSmall(a, m) == IF m = 0 THEN <<>> ELSE BigMulCarry(a, m, 0)

RECURSIVE BigAddCarry(_, _, _)
BigAddCarry(a, b, c) ==
    IF a = <<>> /\ b = <<>> THEN BigOf(c)
    ELSE LET x == IF a = <<>> THEN 0 ELSE Head(a)
             y == IF b = <<>> THEN 0 ELSE Head(b)
             t == x + y + c
         IN  <<t % Base>> \o BigAddCarry(IF a = <<>> THEN a ELSE Tail(a),
                                         IF b = <<>> THEN b ELSE Tail(b),
                                         t \div Base)

BigAdd(a, b) == BigAddCarry(a, b, 0)

\* a * n for any natural n
RECURSIVE BigMulNat(_, _)
BigMulNat(a, n) ==
    IF n <= Chunk THEN BigMulSmall(a, n)
    ELSE BigAdd(BigMulSmall(a, n % Chunk),
                BigMulSmall(BigMulNat(a, n \div Chunk), Chunk))

\* quotient and remainder of a by a small positive d (long division, the
\* high limbs first)
RECURSIVE BigDivRem(_, _)
BigDivRem(a, d) ==
    IF a = <<>> THEN [q |-> <<>>, r |-> 0]
    ELSE LET hi == BigDivRem(Tail(a), d)
             t  == hi.r * Base + Head(a)
         IN  [q |-> IF hi.q = <<>> /\ t \div d = 0 THEN <<>>
                    ELSE <<t \div d>> \o hi.q,
              r |-> t % d]

BigDivSmall(a, d) == BigDivRem(a, d).q

RECURSIVE BigMulPow(_, _, _)
BigMulPow(a, m, n) == IF n = 0 THEN a ELSE BigMulPow(BigMulSmall(a, m), m, n - 1)

RECURSIVE BigDivPow(_, _, _)
BigDivPow(a, d, n) == IF n = 0 THEN a ELSE BigDivPow(BigDivSmall(a, d), d, n - 1)

\* ------------------------------------------------------------------------
\* Curve tables (ages 0..25; entry a of the table is element a + 1)
\* ------------------------------------------------------------------------
MaxAge == 25

\* SURVIVAL_RATES, per mille
SurvivalRatesWithRebound ==
    <<1000, 998, 995, 990, 992, 983, 971, 958, 944, 931, 912, 885, 851,
      803, 731, 659, 569, 434, 345, 256, 184, 130, 90, 60, 35, 20>>

SURVIVAL_RATES ==
    <<1000, 998, 995, 990, 987, 983, 971, 958, 944, 931, 912, 885, 851,
      803, 731, 659, 569, 434, 345, 256, 184, 130, 90, 60, 35, 20>>

ANNUAL_MILEAGE_BY_AGE ==
    <<12000, 11800, 11700, 11617, 9769, 9344, 8977, 8625, 8286, 7923, 7594,
      7266, 6959, 6647, 6284, 6015, 5644, 5328, 4946, 4514, 4151, 3800,
      3500, 3200, 2900, 2600>>

DIESEL_MPG_BY_AGE ==
    <<55, 55, 55, 55, 54, 53, 52, 51, 50, 49, 48, 47, 46, 45, 44, 43, 42,
      41, 40, 39, 38, 37, 36, 35, 34, 33>>

\* dict.get(age, default)
TableGet(table, age, default) ==
    IF age \in 0..(Len(table) - 1) THEN table[age + 1] ELSE default

SurvivalScale == 1000
DeclineRate == 85
DeclineScale == 100
FirstRegYear == 1995
DefaultMileage == 4000
DefaultMpg == 40

\* ------------------------------------------------------------------------
\* build_fleet_model: one calendar year of the cohort loop
\* ------------------------------------------------------------------------
\* car_sales.index.max(); the series of the model are never empty
IndexMax(series) == CHOOSE y \in DOMAIN series : \A z \in DOMAIN series : z <= y

\* "reg_year in car_sales.index", else "reg_year > car_sales.index.max()":
\* FALSE where the loop continues without a cohort
HasNewCars(car_sales, reg_year) ==
    \/ reg_year \in DOMAIN car_sales
    \/ reg_year > IndexMax(car_sales)

YearsAheadOffByOne(car_sales, reg_year) == reg_year - IndexMax(car_sales) - 1

\* years_ahead = reg_year - last_year
YearsAhead(car_sales, reg_year) == reg_year - IndexMax(car_sales)

NewCarsGrowing(car_sales, reg_year) ==
    IF reg_year \in DOMAIN car_sales
    THEN [num |-> BigOf(car_sales[reg_year]), ahead |-> 0]
    ELSE [num   |-> BigMulPow(BigOf(car_sales[IndexMax(car_sales)]),
                              2 * DeclineScale - DeclineRate,
                              reg_year - IndexMax(car_sales)),
          ahead |-> reg_year - IndexMax(car_sales)]

\* The local new_cars for a registration year, as num / DeclineScale^ahead:
\* the recorded count, or the last recorded count times 0.85^years_ahead.
NewCars(car_sales, reg_year) ==
    IF reg_year \in DOMAIN car_sales
    THEN [num |-> BigOf(car_sales[reg_year]), ahead |-> 0]
    ELSE LET last_year   == IndexMax(car_sales)
             years_ahead == YearsAhead(car_sales, reg_year)
         IN  [num   |-> BigMulPow(BigOf(car_sales[last_year]),
                                  DeclineRate, years_ahead),
              ahead |-> years_ahead]

\* int(new_cars * survival): the product truncated toward zero
Surviving(nc, survival) ==
    BigToNat(BigDivSmall(BigDivPow(BigMulSmall(nc.num, survival),
                                   DeclineScale, nc.ahead),
                         SurvivalScale))

\* range(1995, year + 1)
RegYears(year) == FirstRegYear..year

\* if age < 0 or age > 25: continue
AgeInRange(age) == ~(age < 0 \/ age > MaxAge)

\* the registration years of a calendar year that reach the survival step
Considered(car_sales, year) ==
    {r \in RegYears(year) :
        AgeInRange(year - r) /\ HasNewCars(car_sales, r)}

\* new_cars and surviving of every registration year that reaches the
\* survival step in calendar year "year"
InnerLoop(car_sales, year) ==
    [r \in Considered(car_sales, year) |->
        LET nc == NewCars(car_sales, r)
        IN  [new_cars  |-> nc,
             surviving |-> Surviving(nc, TableGet(SURVIVAL_RATES, year - r, 0))]]

KeepAny(surviving) == TRUE

\* if surviving > 0: fleet[year][reg_year] = surviving
Keep(surviving) == surviving > 0

\* fleet[year] after the inner loop
Cohorts(inner) ==
    [r \in {x \in DOMAIN inner : Keep(inner[x].surviving)} |->
        inner[r].surviving]

\* ------------------------------------------------------------------------
\* calculate_consumption: one calendar year of the aggregation loop
\* ------------------------------------------------------------------------
AdjScale == 100
LitresPerGallon == 4546
LitresScale == 1000

MpgValues == {DIESEL_MPG_BY_AGE[i] : i \in 1..Len(DIESEL_MPG_BY_AGE)} \cup {DefaultMpg}

\* A litres figure: for each mpg value that occurs, the miles * 4.546
\* driven at it; no entry where none were.
NoLitres == <<>>

LitresAt(l, m) == IF m \in DOMAIN l THEN l[m] ELSE <<>>

AddLitres(l, m, x) == [k \in DOMAIN l \cup {m} |-> BigAdd(LitresAt(l, k),
                                                         IF k = m THEN x ELSE <<>>)]

SetMin(S) == CHOOSE x \in S : \A y \in S : x <= y

CohortAgeFromBase(year, reg_year) == reg_year - FirstRegYear

\* age = year - reg_year
CohortAge(year, reg_year) == year - reg_year

\* annual_miles = ANNUAL_MILEAGE_BY_AGE.get(age, 4000) * mileage_adjustment,
\* in 1/AdjScale miles
AnnualMilesUnadjusted(age, mileage_adjustment) ==
    TableGet(ANNUAL_MILEAGE_BY_AGE, age, DefaultMileage) * AdjScale

AnnualMiles(age, mileage_adjustment) ==
    TableGet(ANNUAL_MILEAGE_BY_AGE, age, DefaultMileage) * mileage_adjustment

\* miles = count * annual_miles
CohortMiles(count, age, mileage_adjustment) ==
    BigMulNat(BigOf(count), AnnualMiles(age, mileage_adjustment))

SetMax(S) == CHOOSE x \in S : \A y \in S : y <= x

MpgZeroOutsideTable(age) == TableGet(DIESEL_MPG_BY_AGE, age, 0)

\* mpg = DIESEL_MPG_BY_AGE.get(age, 40)
Mpg(age) == TableGet(DIESEL_MPG_BY_AGE, age, DefaultMpg)

\* The body of "for reg_year, count in cohorts.items()", for the cohorts from
\* reg_year on (a dict built by build_fleet_model iterates in ascending
\* reg_year; the sums do not depend on the order).  acc.total_litres[m] is
\* the sum of miles * 4.546 of the cohorts whose mpg is m, in
\* 1/(AdjScale * LitresScale); the litres are the sum over m of
\* acc.total_litres[m] / m.
RECURSIVE CohortLoop(_, _, _, _, _, _)
CohortLoop(year, cohorts, mileage_adjustment, reg_year, last, acc) ==
    IF reg_year > last THEN acc
    ELSE IF reg_year \notin DOMAIN cohorts
    THEN CohortLoop(year, cohorts, mileage_adjustment, reg_year + 1, last, acc)
    ELSE LET count    == cohorts[reg_year]
             age      == CohortAge(year, reg_year)
             mpg      == Mpg(age)
             miles    == CohortMiles(count, age, mileage_adjustment)
             litres   == BigMulSmall(miles, LitresPerGallon)
         IN  CohortLoop(year, cohorts, mileage_adjustment, reg_year + 1, last,
                 [total_vehicles |-> acc.total_vehicles + count,
                  total_miles    |-> BigAdd(acc.total_miles, miles),
                  total_litres   |-> AddLitres(acc.total_litres, mpg,
                                               litres)])

\* The dict appended to results for one year.  The divisions by 1_000_000
\* and 1_000_000_000 only change the unit and are not applied.
ConsumptionRecord(year, cohorts, mileage_adjustment) ==
    LET none == [total_vehicles |-> 0, total_miles |-> <<>>,
                 total_litres |-> NoLitres]
        tot  == IF DOMAIN cohorts = {} THEN none
                ELSE CohortLoop(year, cohorts, mileage_adjustment,
                                SetMin(DOMAIN cohorts), SetMax(DOMAIN cohorts),
                                none)
    IN  [year                 |-> year,
         fleet_size_millions  |-> tot.total_vehicles,
         total_miles_billions |-> tot.total_miles,
         car_litres_billions  |-> tot.total_litres]

\* ------------------------------------------------------------------------
\* estimate_van_consumption
\* ------------------------------------------------------------------------
VanFleetStart == 4000000
VanAnnualMiles == 12000
VanMpg == 35
VanKeepRate == 92
VanScale == 100

None == [some |-> FALSE]
Some(x) == [some |-> TRUE, val |-> x]

\* van_fleet = van_fleet * 0.92 + diesel_vans_sold, as num / VanScale^scale
VanFleetStep(van_fleet, diesel_vans_sold) ==
    [num   |-> BigAdd(BigMulSmall(van_fleet.num, VanKeepRate),
                      BigMulPow(BigOf(diesel_vans_sold), VanScale,
                                van_fleet.scale + 1)),
     scale |-> van_fleet.scale + 1]

\* litres = van_fleet * 12000 / 35 * 4.546, as num / (35 * LitresScale *
\* VanScale^scale)
VanLitres(van_fleet) ==
    [num   |-> BigMulSmall(BigMulNat(van_fleet.num, VanAnnualMiles),
                           LitresPerGallon),
     scale |-> van_fleet.scale]

ZeroVanLitres == [num |-> <<>>, scale |-> 0]

FortyPercentVanLitres == [num |-> BigOf(40), scale |-> 0]

\* van_l = 0
DefaultVanLitres == ZeroVanLitres

\* the loop "for year in years", years = first..last
RECURSIVE VanLoop(_, _, _, _)
VanLoop(van_sales, y, last, van_fleet) ==
    IF y > last THEN <<>>
    ELSE LET f == IF y \in DOMAIN van_sales
                  THEN VanFleetStep(van_fleet, van_sales[y])
                  ELSE van_fleet
         IN  <<[year |-> y, van_fleet_millions |-> f,
                van_litres_billions |-> VanLitres(f)]>>
             \o VanLoop(van_sales, y + 1, last, f)

EstimateVanConsumption(d, first, last) ==
    IF "van_sales" \notin DOMAIN d THEN None
    ELSE Some(VanLoop(d["van_sales"], first, last,
                      [num |-> BigOf(VanFleetStart), scale |-> 0]))

\* ------------------------------------------------------------------------
\* Inputs
\* ------------------------------------------------------------------------
\* Longest window (forecast_year - base_year) of a direct call of
\* build_fleet_model, and the latest --forecast year of a run of main.
MaxWindow == 5
MaxTarget == 2035

BacktestStart == 2015
BacktestEnd == 2024
ForecastBase == 2020
BaselineYear == 2024
DefaultTarget == 2035
KeyYear1 == 2030
KeyYear2 == 2035
DecliningAdj == 98

FileNames == {"car_sales", "fleet_size", "fuel_consumption", "van_sales"}

\* Contents of car_sales.csv (year -> diesel_new_cars)
CarSalesChoices ==
    { (2020 :> 100000),
      (2015 :> 1001) @@ (2016 :> 3001) @@ (2017 :> 2500) @@ (2019 :> 1999)
          @@ (2022 :> 640) @@ (2024 :> 77),
      (1990 :> 100000) @@ (1996 :> 5003) @@ (2018 :> 1) }

\* Contents of van_sales.csv (year -> diesel_lcv)
VanSalesChoices == { (2016 :> 300000) @@ (2020 :> 250005) }

\* Contents of fuel_consumption.csv (year -> diesel_billion_litres, in
\* tenths)
FuelChoices == { (2015 :> 0) @@ (2016 :> 265) @@ (2024 :> 240),
                 (2010 :> 300) }

FleetSizeChoices == { (2023 :> 110) }

Optional(name, choices) == {<<>>} \cup {(name :> c) : c \in choices}

\* The files that load: a function from the names of the loadable files to
\* their contents.  fleet_size.csv, which only summary reads, is taken to
\* load exactly when fuel_consumption.csv does.
FileChoices ==
    { a @@ b @@ c :
        a \in Optional("car_sales", CarSalesChoices),
        b \in Optional("van_sales", VanSalesChoices),
        c \in {<<>>} \cup
              { ("fuel_consumption" :> x) @@ ("fleet_size" :> y) :
                  x \in FuelChoices, y \in FleetSizeChoices } }

\* argparse: --forecast absent is None; None and 0 are both falsy in every
\* test main makes, and are both written 0 here.
ArgChoices ==
    [backtest : BOOLEAN, summary : BOOLEAN,
     forecast : {0, 2025, KeyYear1, MaxTarget}]

\* Fleets handed to a direct call of calculate_consumption
FleetChoices ==
    { <<>>,
      (2025 :> (2020 :> 98300)),
      (2021 :> <<>>) @@ (2020 :> ((2020 :> 7) @@ (1990 :> 3) @@ (2015 :> 11))),
      (2030 :> ((2005 :> 2) @@ (2029 :> 1000) @@ (2002 :> 5)))
          @@ (2031 :> ((2031 :> 1))) }

AdjChoices == {AdjScale, DecliningAdj, 50, 250}

Entries ==
    [fn : {"main"}, args : ArgChoices]
    \cup [fn : {"build_fleet_model"}, base_year : {2010, 2015, 2020},
          window : 0..MaxWindow]
    \cup [fn : {"calculate_consumption"}, fleet : FleetChoices,
          mileage_adjustment : AdjChoices]

\* ------------------------------------------------------------------------
\* State
\* ------------------------------------------------------------------------
VARIABLES
    entry,          \* the call under analysis and its arguments
    files,          \* the CSV files that can be read, with their contents
    data,           \* the dict returned by load_external_data
    pc,             \* position in the program
    stack,          \* return positions of the calls in progress
    outcome,        \* "running", "done" or the uncaught exception
    output,         \* what has been printed
    retval,         \* value returned by the last call
    base_year, forecast_year, year,   \* build_fleet_model: arguments, loop
    fleet,          \* build_fleet_model: {year: {reg_year: count}}
    new_cars,       \* build_fleet_model: new_cars per reg_year, last year
    cc,             \* calculate_consumption: arguments, years left, results
    bt,             \* backtest: locals
    fc              \* forecast: locals

vars == <<entry, files, data, pc, stack, outcome, output, retval, base_year,
          forecast_year, year, fleet, new_cars, cc, bt, fc>>

env == <<entry, files>>
bfm == <<base_year, forecast_year, year, fleet, new_cars>>

NoCc == [fleet |-> <<>>, mileage_adjustment |-> AdjScale, todo |-> {},
         results |-> <<>>]
NoBt == [start_year |-> 0, end_year |-> 0, car_consumption |-> <<>>,
         van_consumption |-> None, i |-> 0]
NoFc == [target_year |-> 0, fleet |-> <<>>, consumption |-> <<>>,
         consumption_declining |-> <<>>, base_litres |-> None, i |-> 0]

Init ==
    /\ entry \in Entries
    /\ files \in FileChoices
    /\ data = <<>>
    /\ pc = "load"
    /\ stack = <<>>
    /\ outcome = "running"
    /\ output = <<>>
    /\ retval = <<>>
    /\ base_year = 0 /\ forecast_year = 0 /\ year = 0
    /\ fleet = <<>>
    /\ new_cars = <<>>
    /\ cc = NoCc
    /\ bt = NoBt
    /\ fc = NoFc

Say(line) == output' = Append(output, line)

\* ------------------------------------------------------------------------
\* load_external_data
\* ------------------------------------------------------------------------
\* Each read either sets its key or prints a warning; nothing is raised.
LoadExternalData ==
    /\ pc = "load"
    /\ data' = files
    /\ output' = output \o
         (IF "car_sales" \in DOMAIN files THEN <<>>
          ELSE <<[line |-> "Warning: Could not load car_sales.csv"]>>) \o
         (IF "fleet_size" \in DOMAIN files THEN <<>>
          ELSE <<[line |-> "Warning: Could not load fleet_size.csv"]>>) \o
         (IF "fuel_consumption" \in DOMAIN files THEN <<>>
          ELSE <<[line |-> "Warning: Could not load fuel_consumption.csv"]>>) \o
         (IF "van_sales" \in DOMAIN files THEN <<>>
          ELSE <<[line |-> "Warning: Could not load van_sales.csv"]>>)
    /\ pc' = IF entry.fn = "main" THEN "main_summary" ELSE "direct_call"
    /\ UNCHANGED <<env, stack, outcome, retval, bfm, cc, bt, fc>>

\* ------------------------------------------------------------------------
\* Calls and returns
\* ------------------------------------------------------------------------
Return(value) ==
    /\ retval' = value
    /\ pc' = Head(stack)
    /\ stack' = Tail(stack)

\* An exception nothing catches ends the process.
Raise(exception) ==
    /\ outcome' = exception
    /\ pc' = "exit"
    /\ UNCHANGED stack

\* build_fleet_model(data, base_year=by, forecast_year=fy)
CallBuildFleetModel(by, fy, back) ==
    /\ base_year' = by
    /\ forecast_year' = fy
    /\ pc' = "bfm"
    /\ stack' = <<back>> \o stack
    /\ UNCHANGED <<year, fleet, new_cars>>

\* sorted(fleet.items())
CallCalculateConsumption(f, k, back) ==
    /\ cc' = [fleet |-> f, mileage_adjustment |-> k, todo |-> DOMAIN f,
              results |-> <<>>]
    /\ pc' = "cc_loop"
    /\ stack' = <<back>> \o stack

\* ------------------------------------------------------------------------
\* build_fleet_model
\* ------------------------------------------------------------------------
BuildingLine == [line |-> "Building fleet model", base_year |-> base_year,
                 forecast_year |-> forecast_year]

CarSalesNeverMissing(d) == FALSE

\* car_sales = data.get('car_sales'); car_sales is None
CarSalesMissing(d) == "car_sales" \notin DOMAIN d

\* raise ValueError("Car sales data required")
BuildFleetModelRaise ==
    /\ pc = "bfm"
    /\ CarSalesMissing(data)
    /\ Say(BuildingLine)
    /\ Raise("ValueError: Car sales data required")
    /\ UNCHANGED <<env, data, retval, bfm, cc, bt, fc>>

BuildFleetModelStart ==
    /\ pc = "bfm"
    /\ ~CarSalesMissing(data)
    /\ Say(BuildingLine)
    /\ fleet' = <<>>
    /\ new_cars' = <<>>
    /\ year' = base_year
    /\ pc' = "bfm_loop"
    /\ UNCHANGED <<env, data, stack, outcome, retval, base_year,
                   forecast_year, cc, bt, fc>>

\* One iteration of "for year in range(base_year, forecast_year + 1)", the
\* inner loop over reg_year included.
BuildFleetModelYear ==
    /\ pc = "bfm_loop"
    /\ year <= forecast_year
    /\ LET inner == InnerLoop(data["car_sales"], year)
       IN  /\ fleet' = (year :> Cohorts(inner)) @@ fleet
           /\ new_cars' = [r \in DOMAIN inner |-> inner[r].new_cars]
    /\ year' = year + 1
    /\ UNCHANGED <<env, data, pc, stack, outcome, output, retval, base_year,
                   forecast_year, cc, bt, fc>>

BuildFleetModelReturn ==
    /\ pc = "bfm_loop"
    /\ year > forecast_year
    /\ Return(fleet)
    /\ UNCHANGED <<env, data, outcome, output, bfm, cc, bt, fc>>

\* ------------------------------------------------------------------------
\* calculate_consumption
\* ------------------------------------------------------------------------
\* One iteration of "for year, cohorts in sorted(fleet.items())"
CalculateConsumptionYear ==
    /\ pc = "cc_loop"
    /\ cc.todo # {}
    /\ LET y == SetMin(cc.todo)
       IN  cc' = [cc EXCEPT
                    !.todo = @ \ {y},
                    !.results = Append(@, ConsumptionRecord(y, cc.fleet[y],
                                              cc.mileage_adjustment))]
    /\ UNCHANGED <<env, data, pc, stack, outcome, output, retval, bfm, bt, fc>>

\* return pd.DataFrame(results)
CalculateConsumptionReturn ==
    /\ pc = "cc_loop"
    /\ cc.todo = {}
    /\ Return(cc.results)
    /\ UNCHANGED <<env, data, outcome, output, bfm, cc, bt, fc>>

\* ------------------------------------------------------------------------
\* Direct calls of the two library functions
\* ------------------------------------------------------------------------
DirectBuildFleetModel ==
    /\ pc = "direct_call"
    /\ entry.fn = "build_fleet_model"
    /\ CallBuildFleetModel(entry.base_year, entry.base_year + entry.window,
                           "returned")
    /\ UNCHANGED <<env, data, outcome, output, retval, cc, bt, fc>>

DirectCalculateConsumption ==
    /\ pc = "direct_call"
    /\ entry.fn = "calculate_consumption"
    /\ CallCalculateConsumption(entry.fleet, entry.mileage_adjustment,
                                "returned")
    /\ UNCHANGED <<env, data, outcome, output, retval, bfm, bt, fc>>

DirectReturned ==
    /\ pc = "returned"
    /\ pc' = "exit"
    /\ outcome' = "done"
    /\ UNCHANGED <<env, data, stack, output, retval, bfm, cc, bt, fc>>

\* ------------------------------------------------------------------------
\* backtest
\* ------------------------------------------------------------------------
ActualShare == 55
ShareScale == 100
ActualScale == 10
Billion == 1000000000

RECURSIVE MulAll(_, _)
MulAll(a, S) ==
    IF S = {} THEN a
    ELSE LET m == SetMin(S) IN MulAll(BigMulSmall(a, m), S \ {m})

RECURSIVE SumOver(_, _)
SumOver(v, S) ==
    IF S = {} THEN <<>>
    ELSE LET m == SetMin(S)
         IN  BigAdd(MulAll(v[m], MpgValues \ {m}), SumOver(v, S \ {m}))

\* A litres vector over the common denominator (the product of all mpg
\* values): equal numbers have equal numerators.
Canon(v) == SumOver(v, DOMAIN v)

\* total_pred = car_l + van_l, over the denominator
\*   (product of mpg values) * LitresScale * AdjScale * VanScale^scale
TotalPred(car_l, van_l) ==
    BigAdd(BigMulPow(Canon(car_l), VanScale, van_l.scale),
           MulAll(BigMulSmall(van_l.num, AdjScale), MpgValues \ {VanMpg}))

\* car_van_actual = actual_val * 0.55 (actual_val in billions of litres),
\* over the same denominator
CarVanActual(actual_val, van_l) ==
    MulAll(BigMulPow(
               BigMulSmall(BigMulSmall(BigMulNat(BigMulSmall(
                   BigOf(actual_val), ActualShare),
                   Billion \div (ActualScale * ShareScale)),
                   LitresScale), AdjScale),
               VanScale, van_l.scale),
           MpgValues)

\* error = ((total_pred - car_van_actual) / car_van_actual) * 100 on numpy
\* floats: a zero denominator gives inf or nan (a warning, no exception).
\* Only what the truth test and the format read is kept.
ErrorOf(car_l, van_l, actual_val) ==
    LET pred == TotalPred(car_l, van_l)
    IN  IF actual_val = 0
        THEN (IF pred = <<>> THEN "nan" ELSE "inf")
        ELSE IF pred = CarVanActual(actual_val, van_l) THEN "zero"
        ELSE "nonzero"

\* if actual is not None and year in actual.index
HasActual(d, y) ==
    "fuel_consumption" \in DOMAIN d /\ y \in DOMAIN d["fuel_consumption"]

ErrorStrUnguarded(error) == error

\* error_str = f"{error:+.1f}%" if error else "N/A": None and 0.0 are
\* falsy, inf and nan are not
ErrorStr(error) == IF error \in {"None", "zero"} THEN "N/A" ELSE error

\* the row print of backtest for car_consumption row r
BacktestRowLine(r, van_consumption, d) ==
    LET y       == r.year
        car_l   == r.car_litres_billions
        van_row == IF van_consumption.some
                   THEN SelectSeq(van_consumption.val, LAMBDA v : v.year = y)
                   ELSE <<>>
        van_l   == IF Len(van_row) > 0 THEN van_row[1].van_litres_billions
                   ELSE DefaultVanLitres
        has     == HasActual(d, y)
        actual_val == IF has THEN d["fuel_consumption"][y] ELSE 0
        error   == IF has THEN ErrorOf(car_l, van_l, actual_val) ELSE "None"
    IN  [line       |-> "backtest row",
         year       |-> y,
         car_l      |-> car_l,
         van_l      |-> van_l,
         actual_str |-> IF has /\ actual_val # 0 THEN "value" ELSE "N/A",
         error_str  |-> ErrorStr(error)]

\* backtest up to the call of build_fleet_model
Backtest ==
    /\ pc = "bt"
    /\ Say([line |-> "BACKTEST: Comparing predicted vs actual diesel consumption"])
    /\ CallBuildFleetModel(bt.start_year, bt.end_year, "bt_fleet")
    /\ UNCHANGED <<env, data, outcome, retval, cc, bt, fc>>

\* car_consumption = calculate_consumption(fleet)
BacktestCalc ==
    /\ pc = "bt_fleet"
    /\ CallCalculateConsumption(retval, AdjScale, "bt_cars")
    /\ UNCHANGED <<env, data, outcome, output, retval, bfm, bt, fc>>

\* van_consumption = estimate_van_consumption(...), then the table header
BacktestVans ==
    /\ pc = "bt_cars"
    /\ LET van == EstimateVanConsumption(data, bt.start_year, bt.end_year)
       IN  /\ bt' = [bt EXCEPT !.car_consumption = retval,
                               !.van_consumption = van, !.i = 1]
           /\ output' = output \o
                (IF van.some THEN <<>>
                 ELSE <<[line |-> "Warning: No van sales data, estimating conservatively"]>>)
                \o <<[line |-> "backtest header"]>>
    /\ pc' = "bt_rows"
    /\ UNCHANGED <<env, data, stack, outcome, retval, bfm, cc, fc>>

\* one iteration of "for _, row in car_consumption.iterrows()"
BacktestRow ==
    /\ pc = "bt_rows"
    /\ bt.i <= Len(bt.car_consumption)
    /\ Say(BacktestRowLine(bt.car_consumption[bt.i], bt.van_consumption, data))
    /\ bt' = [bt EXCEPT !.i = @ + 1]
    /\ UNCHANGED <<env, data, pc, stack, outcome, retval, bfm, cc, fc>>

BacktestFinish ==
    /\ pc = "bt_rows"
    /\ bt.i > Len(bt.car_consumption)
    /\ Say([line |-> "Note: Actual is total road diesel; cars+vans are ~55% of this"])
    /\ Return(<<>>)
    /\ UNCHANGED <<env, data, outcome, bfm, cc, bt, fc>>

\* ------------------------------------------------------------------------
\* forecast
\* ------------------------------------------------------------------------
\* forecast up to the call of build_fleet_model
Forecast ==
    /\ pc = "fc"
    /\ Say([line |-> "FORECAST: Diesel car consumption", target_year |-> fc.target_year])
    /\ CallBuildFleetModel(ForecastBase, fc.target_year, "fc_fleet")
    /\ UNCHANGED <<env, data, outcome, retval, cc, bt, fc>>

\* consumption = calculate_consumption(fleet)
ForecastCalc ==
    /\ pc = "fc_fleet"
    /\ fc' = [fc EXCEPT !.fleet = retval]
    /\ CallCalculateConsumption(retval, AdjScale, "fc_cons")
    /\ UNCHANGED <<env, data, outcome, output, retval, bfm, bt>>

\* consumption_declining = calculate_consumption(fleet, mileage_adjustment=0.98)
ForecastCalcDeclining ==
    /\ pc = "fc_cons"
    /\ fc' = [fc EXCEPT !.consumption = retval]
    /\ CallCalculateConsumption(fc.fleet, DecliningAdj, "fc_decl")
    /\ UNCHANGED <<env, data, outcome, output, retval, bfm, bt>>

ForecastHeader ==
    /\ pc = "fc_decl"
    /\ fc' = [fc EXCEPT !.consumption_declining = retval,
                        !.base_litres = None, !.i = 1]
    /\ Say([line |-> "forecast header"])
    /\ pc' = "fc_rows"
    /\ UNCHANGED <<env, data, stack, outcome, retval, bfm, cc, bt>>

\* A litres figure is 0.0 exactly when no cohort contributed to it.
IsZeroLitres(l) == \A m \in DOMAIN l : l[m] = <<>>

\* base_litres after "if year == 2024: base_litres = litres_b"
BaseLitresAt(row, base_litres) ==
    IF row.year = BaselineYear THEN Some(row.car_litres_billions)
    ELSE base_litres

\* "if base_litres and year >= 2024": None and 0.0 are falsy
ShowsChange(row, base_litres) ==
    /\ base_litres.some
    /\ ~IsZeroLitres(base_litres.val)
    /\ row.year >= BaselineYear

ForecastRowLine(row, base_litres) ==
    [line     |-> "forecast row",
     year     |-> row.year,
     fleet_m  |-> row.fleet_size_millions,
     miles_b  |-> row.total_miles_billions,
     litres_b |-> row.car_litres_billions,
     change   |-> IF ShowsChange(row, base_litres)
                  THEN (IF row.car_litres_billions = base_litres.val
                        THEN "+0%" ELSE "pct")
                  ELSE ""]

\* one iteration of "for _, row in consumption.iterrows()"
ForecastRow ==
    /\ pc = "fc_rows"
    /\ fc.i <= Len(fc.consumption)
    /\ LET row  == fc.consumption[fc.i]
           base == BaseLitresAt(row, fc.base_litres)
       IN  /\ Say(ForecastRowLine(row, base))
           /\ fc' = [fc EXCEPT !.base_litres = base, !.i = @ + 1]
    /\ UNCHANGED <<env, data, pc, stack, outcome, retval, bfm, cc, bt>>

RowsOf(consumption, y) == SelectSeq(consumption, LAMBDA r : r.year = y)

\* consumption[consumption['year'] == 2030].iloc[0] on no row: IndexError
ForecastKeyProjectionsRaise ==
    /\ pc = "fc_rows"
    /\ fc.i > Len(fc.consumption)
    /\ \/ RowsOf(fc.consumption, KeyYear1) = <<>>
       \/ fc.target_year >= KeyYear2 /\ RowsOf(fc.consumption, KeyYear2) = <<>>
    /\ Say([line |-> "Key projections:"])
    /\ Raise("IndexError: single positional indexer is out-of-bounds")
    /\ UNCHANGED <<env, data, retval, bfm, cc, bt, fc>>

ForecastKeyProjections ==
    /\ pc = "fc_rows"
    /\ fc.i > Len(fc.consumption)
    /\ RowsOf(fc.consumption, KeyYear1) # <<>>
    /\ fc.target_year >= KeyYear2 => RowsOf(fc.consumption, KeyYear2) # <<>>
    /\ output' = output \o
         <<[line |-> "Key projections:"],
           [line |-> "key projection", year |-> KeyYear1,
            row |-> RowsOf(fc.consumption, KeyYear1)[1]]>> \o
         (IF fc.target_year >= KeyYear2
          THEN <<[line |-> "key projection", year |-> KeyYear2,
                  row |-> RowsOf(fc.consumption, KeyYear2)[1]]>>
          ELSE <<>>)
    /\ Return(<<>>)
    /\ UNCHANGED <<env, data, outcome, bfm, cc, bt, fc>>

\* ------------------------------------------------------------------------
\* summary and main
\* ------------------------------------------------------------------------
Truthy(n) == n # 0

\* summary(data): each of the four sections prints its figures or
\* NOT AVAILABLE
SummaryLine(d) ==
    [line |-> "DIESEL PREDICTION MODEL - DATA SUMMARY",
     not_available |-> FileNames \ DOMAIN d]

\* if args.summary or not (args.backtest or args.forecast): summary(data)
MainSummary ==
    /\ pc = "main_summary"
    /\ entry.args.summary
          \/ ~(entry.args.backtest \/ Truthy(entry.args.forecast))
    /\ Say(SummaryLine(data))
    /\ pc' = "main_backtest"
    /\ UNCHANGED <<env, data, stack, outcome, retval, bfm, cc, bt, fc>>

MainSkipSummary ==
    /\ pc = "main_summary"
    /\ ~(entry.args.summary
          \/ ~(entry.args.backtest \/ Truthy(entry.args.forecast)))
    /\ pc' = "main_backtest"
    /\ UNCHANGED <<env, data, stack, outcome, output, retval, bfm, cc, bt, fc>>

\* if args.backtest: backtest(data)
MainBacktest ==
    /\ pc = "main_backtest"
    /\ entry.args.backtest
    /\ bt' = [NoBt EXCEPT !.start_year = BacktestStart,
                          !.end_year = BacktestEnd]
    /\ pc' = "bt"
    /\ stack' = <<"main_forecast">> \o stack
    /\ UNCHANGED <<env, data, outcome, output, retval, bfm, cc, fc>>

MainSkipBacktest ==
    /\ pc = "main_backtest"
    /\ ~entry.args.backtest
    /\ pc' = "main_forecast"
    /\ UNCHANGED <<env, data, stack, outcome, output, retval, bfm, cc, bt, fc>>

\* if args.forecast: forecast(data, target_year=args.forecast)
MainForecast ==
    /\ pc = "main_forecast"
    /\ Truthy(entry.args.forecast)
    /\ fc' = [NoFc EXCEPT !.target_year = entry.args.forecast]
    /\ pc' = "fc"
    /\ stack' = <<"main_done">> \o stack
    /\ UNCHANGED <<env, data, outcome, output, retval, bfm, cc, bt>>

\* elif not args.backtest and not args.summary: forecast(data, 2035)
MainDefaultForecast ==
    /\ pc = "main_forecast"
    /\ ~Truthy(entry.args.forecast)
    /\ ~entry.args.backtest /\ ~entry.args.summary
    /\ fc' = [NoFc EXCEPT !.target_year = DefaultTarget]
    /\ pc' = "fc"
    /\ stack' = <<"main_done">> \o stack
    /\ UNCHANGED <<env, data, outcome, output, retval, bfm, cc, bt>>

MainSkipForecast ==
    /\ pc = "main_forecast"
    /\ ~Truthy(entry.args.forecast)
    /\ ~(~entry.args.backtest /\ ~entry.args.summary)
    /\ pc' = "main_done"
    /\ UNCHANGED <<env, data, stack, outcome, output, retval, bfm, cc, bt, fc>>

\* print("\nDone.")
MainDone ==
    /\ pc = "main_done"
    /\ Say([line |-> "Done."])
    /\ outcome' = "done"
    /\ pc' = "exit"
    /\ UNCHANGED <<env, data, stack, retval, bfm, cc, bt, fc>>

Next ==
    \/ LoadExternalData
    \/ DirectBuildFleetModel
    \/ DirectCalculateConsumption
    \/ DirectReturned
    \/ BuildFleetModelRaise
    \/ BuildFleetModelStart
    \/ BuildFleetModelYear
    \/ BuildFleetModelReturn
    \/ CalculateConsumptionYear
    \/ CalculateConsumptionReturn
    \/ Backtest
    \/ BacktestCalc
    \/ BacktestVans
    \/ BacktestRow
    \/ BacktestFinish
    \/ Forecast
    \/ ForecastCalc
    \/ ForecastCalcDeclining
    \/ ForecastHeader
    \/ ForecastRow
    \/ ForecastKeyProjectionsRaise
    \/ ForecastKeyProjections
    \/ MainSummary
    \/ MainSkipSummary
    \/ MainBacktest
    \/ MainSkipBacktest
    \/ MainForecast
    \/ MainDefaultForecast
    \/ MainSkipForecast
    \/ MainDone

Spec == Init /\ [][Next]_vars

\* ------------------------------------------------------------------------
\* Properties
\* ------------------------------------------------------------------------
HasCarSales == "car_sales" \in DOMAIN data
CarSales == data["car_sales"]

\* C1 (as claimed): every cohort stored for a registration year with a
\* recorded count N holds round(N * survival(age)), a nearest integer of the
\* product: 2 * |1000 * count - N * survival| <= 1000 with survival per
\* mille.
C1_CountIsRounded ==
    HasCarSales =>
        \A y \in DOMAIN fleet : \A r \in DOMAIN fleet[y] \cap DOMAIN CarSales :
            LET p == CarSales[r] * TableGet(SURVIVAL_RATES, y - r, 0)
                c == fleet[y][r] * SurvivalScale
            IN  2 * (IF c > p THEN c - p ELSE p - c) <= SurvivalScale

\* the set of registration years the specification's projector visits in
\* calendar year y
EligibleRegYears(y) == (y - MaxAge)..y

\* C2 (as claimed): every recorded registration year R with 0 <= Y - R <= 25
\* whose surviving share is positive has a cohort in the snapshot of Y.
C2_EveryEligibleYearPresent ==
    HasCarSales =>
        \A y \in DOMAIN fleet : \A r \in EligibleRegYears(y) \cap DOMAIN CarSales :
            Surviving([num |-> BigOf(CarSales[r]), ahead |-> 0],
                      TableGet(SURVIVAL_RATES, y - r, 0)) > 0
                => r \in DOMAIN fleet[y]

\* C3: the new_cars used for a registration year R = L + n after the last
\* recorded year L is V * 0.85^n, V the count recorded at L:
\* new_cars * 100^n = V * 85^n (both sides over the scale of new_cars).
C3_Extrapolation ==
    (pc = "bfm_loop" /\ HasCarSales) =>
        \A r \in DOMAIN new_cars :
            r > IndexMax(CarSales) =>
                LET n == r - IndexMax(CarSales)
                    V == CarSales[IndexMax(CarSales)]
                IN  BigMulPow(new_cars[r].num, DeclineScale, n)
                      = BigMulPow(BigMulPow(BigOf(V), DeclineRate, n),
                                  DeclineScale, new_cars[r].ahead)

\* C3 witness: the inner loop has used an extrapolated count three and more
\* years after the last recorded year, of a positive recorded count.
C3_Witness ==
    /\ pc = "bfm_loop" /\ HasCarSales
    /\ CarSales[IndexMax(CarSales)] > 1
    /\ IndexMax(CarSales) + 1 \in DOMAIN new_cars
    /\ IndexMax(CarSales) + 3 \in DOMAIN new_cars
    /\ IndexMax(CarSales) + 4 \in DOMAIN new_cars

\* the registration count of year r, rounded down: the recorded count, or
\* the last recorded count times 0.85 per year after it
RegistrationFloor(car_sales, r) ==
    IF r \in DOMAIN car_sales THEN car_sales[r]
    ELSE LET n == r - IndexMax(car_sales)
         IN  BigToNat(BigDivPow(BigMulPow(BigOf(car_sales[IndexMax(car_sales)]),
                                          DeclineRate, n),
                                DeclineScale, n))

RECURSIVE SumOf(_, _)
SumOf(f, S) ==
    IF S = {} THEN 0
    ELSE LET x == CHOOSE z \in S : TRUE IN f[x] + SumOf(f, S \ {x})

\* C4: every cohort's registration year is a recorded year or a year after
\* the last recorded one, its count is at most the registration count of
\* that year, and the total of a snapshot is at most the sum of the
\* registration counts of its 26 eligible registration years.
C4_NeverInventsVehicles ==
    (pc = "bfm_loop" /\ HasCarSales) =>
        \A y \in DOMAIN fleet :
            LET traceable == {r \in EligibleRegYears(y) :
                                 r \in DOMAIN CarSales \/ r > IndexMax(CarSales)}
                reg == [r \in traceable |-> RegistrationFloor(CarSales, r)]
            IN  /\ DOMAIN fleet[y] \subseteq traceable
                /\ \A r \in DOMAIN fleet[y] : fleet[y][r] <= reg[r]
                /\ SumOf(fleet[y], DOMAIN fleet[y]) <= SumOf(reg, traceable)

\* C4 witness: a snapshot holds a recorded and an extrapolated cohort while a
\* registration year inside the age window has no data and no cohort.
C4_Witness ==
    /\ pc = "bfm_loop" /\ HasCarSales
    /\ \E y \in DOMAIN fleet :
        /\ \E r \in DOMAIN fleet[y] : r \in DOMAIN CarSales
        /\ \E r \in DOMAIN fleet[y] : r > IndexMax(CarSales)
        /\ \E r \in RegYears(y) :
              /\ AgeInRange(y - r)
              /\ r \notin DOMAIN CarSales /\ r < IndexMax(CarSales)
              /\ r \notin DOMAIN fleet[y]

\* C5: every stored cohort has a strictly positive count and an age within
\* 0..25.
C5_PositiveCountAgeInRange ==
    \A y \in DOMAIN fleet : \A r \in DOMAIN fleet[y] :
        fleet[y][r] > 0 /\ y - r \in 0..MaxAge

\* C5 witness: a registration year reached the survival step with a count
\* that truncates to 0 and was not stored, in a snapshot that holds cohorts.
C5_Witness ==
    /\ HasCarSales
    /\ \E y \in DOMAIN fleet :
        /\ fleet[y] # <<>>
        /\ \E r \in Considered(CarSales, y) :
              /\ InnerLoop(CarSales, y)[r].surviving = 0
              /\ r \notin DOMAIN fleet[y]

\* States in which calculate_consumption has just returned: retval is its
\* result for the arguments cc.fleet and cc.mileage_adjustment.
ConsumptionReturned ==
    \/ pc \in {"bt_cars", "fc_cons", "fc_decl"}
    \/ pc = "returned" /\ entry.fn = "calculate_consumption"

Mileage(age) == TableGet(ANNUAL_MILEAGE_BY_AGE, age, DefaultMileage)
Economy(age) == TableGet(DIESEL_MPG_BY_AGE, age, DefaultMpg)

RECURSIVE BigSumOf(_, _)
BigSumOf(f, S) ==
    IF S = {} THEN <<>>
    ELSE LET x == CHOOSE z \in S : TRUE IN BigAdd(f[x], BigSumOf(f, S \ {x}))

\* count * mileage(age) * k of every cohort of year y, in 1/AdjScale miles
MilesOfCohorts(y, cohorts, k) ==
    [r \in DOMAIN cohorts |->
        BigMulNat(BigOf(cohorts[r] * Mileage(y - r)), k)]

ScaledBy(rec, base, k) ==
    /\ rec.year = base.year
    /\ rec.fleet_size_millions = base.fleet_size_millions
    /\ BigMulSmall(rec.total_miles_billions, AdjScale)
          = BigMulSmall(base.total_miles_billions, k)
    /\ \A m \in MpgValues :
          BigMulSmall(LitresAt(rec.car_litres_billions, m), AdjScale)
            = BigMulSmall(LitresAt(base.car_litres_billions, m), k)

Printed(line) == \E i \in 1..Len(output) : output[i].line = line

ConfigurationError == "ValueError: Car sales data required"

\* C8: when the registration series is absent from the loaded data, a run
\* that enters build_fleet_model (directly, from backtest or from forecast)
\* ends there with the configuration error; no fleet snapshot, no
\* consumption record and no table row is ever produced, returned or
\* printed.
C8_MissingRegistrationsRaise ==
    (pc # "load" /\ ~HasCarSales /\ entry.fn # "calculate_consumption") =>
        /\ fleet = <<>> /\ new_cars = <<>>
        /\ cc = NoCc /\ retval = <<>>
        /\ bt.car_consumption = <<>> /\ fc.consumption = <<>>
        /\ ~Printed("backtest header") /\ ~Printed("backtest row")
        /\ ~Printed("forecast header") /\ ~Printed("forecast row")
        /\ ~Printed("key projection")
        /\ Printed("Building fleet model")
              => pc = "exit" /\ outcome = ConfigurationError

\* C8 witness: build_fleet_model raised inside backtest or forecast.
C8_Witness ==
    /\ ~HasCarSales
    /\ entry.fn = "main"
    /\ pc = "exit" /\ outcome = ConfigurationError
    /\ Len(stack) = 2

\* C9 (as claimed): a run of main without the registration series prints a
\* diagnostic for each dependent analysis, still runs the other analyses it
\* was asked for, and reaches Done.
C9_RunReachesDone ==
    (entry.fn = "main" /\ pc = "exit" /\ ~HasCarSales) =>
        /\ outcome = "done"
        /\ Printed("Done.")
        /\ Truthy(entry.args.forecast) => Printed("FORECAST: Diesel car consumption")

BacktestRows == SelectSeq(output, LAMBDA l : l.line = "backtest row")

\* the car consumption of the backtest years as a function of the
\* registration series alone
CarConsumptionOf(car_sales) ==
    [i \in 1..(BacktestEnd - BacktestStart + 1) |->
        LET y == BacktestStart + i - 1
        IN  ConsumptionRecord(y, Cohorts(InnerLoop(car_sales, y)), AdjScale)]

BacktestWindow == BacktestStart..BacktestEnd

\* the actual-consumption series is absent or has no year of the window
NoActuals ==
    \/ "fuel_consumption" \notin DOMAIN data
    \/ DOMAIN data["fuel_consumption"] \cap BacktestWindow = {}

BacktestNote == "Note: Actual is total road diesel; cars+vans are ~55% of this"

\* C11: without an actual value for any year of the window, every row that
\* backtest prints shows N/A for the actual value and for the error, and a
\* backtest on a present registration series runs to its closing note with
\* one row for every year of the window.
C11_NoActualsAllNA ==
    (entry.fn = "main" /\ pc # "load" /\ NoActuals) =>
        /\ \A i \in 1..Len(BacktestRows) :
              /\ BacktestRows[i].actual_str = "N/A"
              /\ BacktestRows[i].error_str = "N/A"
        /\ (pc = "exit" /\ entry.args.backtest /\ HasCarSales) =>
              /\ Printed(BacktestNote)
              /\ outcome # ConfigurationError
              /\ {BacktestRows[i].year : i \in 1..Len(BacktestRows)}
                    = BacktestWindow

\* C11 witness: a backtest whose actual series holds only a year outside the
\* window has printed its ten rows and its note.
C11_Witness ==
    /\ entry.fn = "main" /\ entry.args.backtest
    /\ "fuel_consumption" \in DOMAIN data /\ NoActuals
    /\ Printed(BacktestNote)
    /\ Len(BacktestRows) = 10
    /\ BacktestRows[10].error_str = "N/A"

\* the count of cohort (r, y), 0 when the snapshot of y holds no such cohort
CountAt(y, r) == IF r \in DOMAIN fleet[y] THEN fleet[y][r] ELSE 0

\* the table as a property of its 26 entries
SurvivalTableDecays ==
    /\ Len(SURVIVAL_RATES) = MaxAge + 1
    /\ \A a1 \in 0..MaxAge : \A a2 \in 0..MaxAge :
          a1 < a2 => TableGet(SURVIVAL_RATES, a1, 0)
                        >= TableGet(SURVIVAL_RATES, a2, 0)
    /\ \A a \in 0..MaxAge :
          /\ TableGet(SURVIVAL_RATES, a, 0) >= 0
          /\ TableGet(SURVIVAL_RATES, a, 0) <= SurvivalScale

\* C12: the survival table covers ages 0..25, is non-increasing in age and
\* has every entry in [0, 1]; and for a recorded registration year R the
\* count of cohort (R, Y + 1) is at most the count of cohort (R, Y), for
\* consecutive calendar years Y >= R of a fleet.
C12_SurvivalNonIncreasing ==
    /\ SurvivalTableDecays
    /\ HasCarSales =>
          \A y \in DOMAIN fleet :
              y + 1 \in DOMAIN fleet =>
                  \A r \in DOMAIN CarSales :
                      r <= y => CountAt(y + 1, r) <= CountAt(y, r)

\* C12 witness: a recorded cohort is held in two consecutive snapshots and
\* is strictly smaller in the later one, and another one is held in equal
\* numbers or has disappeared.
C12_Witness ==
    /\ HasCarSales
    /\ \E y \in DOMAIN fleet : \E r \in DOMAIN CarSales :
          /\ y + 1 \in DOMAIN fleet
          /\ r \in DOMAIN fleet[y] /\ r \in DOMAIN fleet[y + 1]
          /\ fleet[y + 1][r] < fleet[y][r]
    /\ \E y \in DOMAIN fleet : \E r \in DOMAIN CarSales :
          /\ y + 1 \in DOMAIN fleet
          /\ r \in DOMAIN fleet[y]
          /\ CountAt(y + 1, r) = 0 \/ CountAt(y + 1, r) = fleet[y][r]

\* C13 (as claimed): a row of a year for which the actual series has a value
\* shows that value and a numeric error; N/A appears only on the rows of
\* years without an actual value, also when the value or the error is 0.
C13_NAOnlyWithoutActual ==
    entry.fn = "main" =>
        \A i \in 1..Len(BacktestRows) :
            IF HasActual(data, BacktestRows[i].year)
            THEN /\ BacktestRows[i].actual_str = "value"
                 /\ BacktestRows[i].error_str \in {"nonzero", "zero"}
            ELSE /\ BacktestRows[i].actual_str = "N/A"
                 /\ BacktestRows[i].error_str = "N/A"

ForecastRows == SelectSeq(output, LAMBDA l : l.line = "forecast row")

\* the last target year within the age range of the tables, from the base
\* year (2045)
LastValidTarget == ForecastBase + MaxAge

\* C14 (as claimed): a forecast to any target year of 2020..2045 on a
\* present registration series completes normally with one row per year of
\* 2020..target_year; a row shows a change against 2024 exactly when its
\* year is 2024 or later, and the row of 2024 shows a change of 0.
C14_ForecastCompletes ==
    (/\ entry.fn = "main" /\ pc = "exit" /\ HasCarSales
     /\ entry.args.forecast \in ForecastBase..LastValidTarget) =>
        /\ outcome = "done"
        /\ Len(ForecastRows) = entry.args.forecast - ForecastBase + 1
        /\ \A i \in 1..Len(ForecastRows) :
              /\ ForecastRows[i].year = ForecastBase + i - 1
              /\ ForecastRows[i].change # "" <=> ForecastRows[i].year >= BaselineYear
              /\ ForecastRows[i].year = BaselineYear
                    => ForecastRows[i].change = "+0%"

\* the ages for which the fuel-economy table has a figure
EconomyAges == 0..(Len(DIESEL_MPG_BY_AGE) - 1)

=============================================================================
